---- MODULE Spec2Model ----
(***************************************************************************)
(* Movie review platform: the in-memory Express application (movies,       *)
(* reviews, listings, search, statistics) and the Firestore-backed review  *)
(* router, as state machines.                                               *)
(*                                                                          *)
(* JavaScript values are modelled with their types, because the handlers    *)
(* rely on coercion (!x, x < 1, parseInt(x), x - 1): a request field is     *)
(* undefined, a number or a string, and every conversion is computed on the *)
(* characters of the string as the language does it.                        *)
(***************************************************************************)
EXTENDS Integers, Sequences, FiniteSets, TLC

(***************************************************************************)
(* Bounds of the model.                                                     *)
(***************************************************************************)
\* Requests the in-memory application serves in one run.
MaxRequests == 3
\* Largest page number and page size a listing request asks for.
MaxPage == 3
MaxLimit == 3
\* Requests the Firestore-backed router accepts in one run.
MaxFsRequests == 3

(***************************************************************************)
(* JavaScript values.  A number is carried in tenths (Scale), which is      *)
(* exact for every value the model feeds in: integers and ratings with one  *)
(* fractional digit; toFixed(1) produces one fractional digit.              *)
(***************************************************************************)
Scale == 10

Undefined == [t |-> "undefined", n |-> 0, s |-> <<>>]
NaN == [t |-> "NaN", n |-> 0, s |-> <<>>]
Infinity == [t |-> "Infinity", n |-> 0, s |-> <<>>]
Num10(x) == [t |-> "number", n |-> x, s |-> <<>>]
Num(i) == Num10(i * Scale)
Str(cs) == [t |-> "string", n |-> 0, s |-> cs]

\* ToBoolean: undefined, NaN, 0 and "" are falsy.
ToBoolean(v) ==
    CASE v.t = "undefined" -> FALSE
      [] v.t = "NaN" -> FALSE
      [] v.t = "Infinity" -> TRUE
      [] v.t = "number" -> v.n # 0
      [] v.t = "string" -> Len(v.s) > 0

WhiteSpace == {" ", "\t", "\n"}

RECURSIVE TrimStart(_)
TrimStart(cs) ==
    IF cs # <<>> /\ Head(cs) \in WhiteSpace THEN TrimStart(Tail(cs)) ELSE cs

RECURSIVE TrimEnd(_)
TrimEnd(cs) ==
    IF cs # <<>> /\ cs[Len(cs)] \in WhiteSpace
    THEN TrimEnd(SubSeq(cs, 1, Len(cs) - 1))
    ELSE cs

\* String.prototype.trim
Trim(cs) == TrimEnd(TrimStart(cs))

DigitChars == <<"0", "1", "2", "3", "4", "5", "6", "7", "8", "9">>
IsDigit(c) == \E i \in 1..10 : DigitChars[i] = c
DigitValue(c) == (CHOOSE i \in 1..10 : DigitChars[i] = c) - 1

\* The longest prefix of cs made of decimal digits.
RECURSIVE DigitPrefix(_)
DigitPrefix(cs) ==
    IF cs # <<>> /\ IsDigit(Head(cs))
    THEN <<Head(cs)>> \o DigitPrefix(Tail(cs))
    ELSE <<>>

RECURSIVE DigitsValue(_)
DigitsValue(ds) ==
    IF ds = <<>> THEN 0
    ELSE 10 * DigitsValue(SubSeq(ds, 1, Len(ds) - 1)) + DigitValue(ds[Len(ds)])

AllDigits(cs) == \A i \in 1..Len(cs) : IsDigit(cs[i])

\* The decimal digits of a natural number.
RECURSIVE NatToChars(_)
NatToChars(k) ==
    IF k < 10 THEN <<DigitChars[k + 1]>>
    ELSE NatToChars(k \div 10) \o <<DigitChars[(k % 10) + 1]>>

\* Number::toString of an integer.
IntToChars(i) == IF i < 0 THEN <<"-">> \o NatToChars(-i) ELSE NatToChars(i)

HasSign(cs) == cs # <<>> /\ Head(cs) \in {"-", "+"}
Unsigned(cs) == IF HasSign(cs) THEN Tail(cs) ELSE cs
SignOf(cs) == IF cs # <<>> /\ Head(cs) = "-" THEN -1 ELSE 1

\* ToNumber of a string (StringToNumber): surrounding white space is dropped,
\* the empty string is 0, a signed decimal literal is its value, anything
\* else is NaN.  Hexadecimal, exponent and "Infinity" literals are not among
\* the inputs; a literal's fractional digits past the first are not either.
StringToNumber(cs) ==
    LET t == Trim(cs)
        body == Unsigned(t)
        ip == DigitPrefix(body)
        rest == SubSeq(body, Len(ip) + 1, Len(body))
        fp == IF rest = <<>> THEN <<>> ELSE Tail(rest)
    IN  IF t = <<>> THEN Num(0)
        ELSE IF rest = <<>>
             THEN IF ip = <<>> THEN NaN ELSE Num(SignOf(t) * DigitsValue(ip))
        ELSE IF Head(rest) = "." /\ AllDigits(fp) /\ (ip # <<>> \/ fp # <<>>)
             THEN Num10(SignOf(t) * (Scale * DigitsValue(ip)
                        + (IF fp = <<>> THEN 0 ELSE DigitValue(fp[1]))))
        ELSE NaN

\* ToNumber
ToNumber(v) ==
    CASE v.t = "undefined" -> NaN
      [] v.t = "string" -> StringToNumber(v.s)
      [] OTHER -> v

\* Truncation toward zero of a number carried in tenths.
Trunc10(x) == IF x >= 0 THEN (x \div Scale) * Scale ELSE -(((-x) \div Scale) * Scale)

\* parseInt(v) with no radix.  A string: leading white space is dropped, then
\* an optional sign and the longest run of digits are read; no digit gives
\* NaN.  A number is first converted to its string, whose integer prefix is
\* the number truncated toward zero (for magnitudes from 1e-6 up to 1e21).
\* undefined, NaN and Infinity convert to strings that start with no digit.
ParseInt(v) ==
    CASE v.t = "string" ->
            LET t == TrimStart(v.s)
                ds == DigitPrefix(Unsigned(t))
            IN  IF ds = <<>> THEN NaN ELSE Num(SignOf(t) * DigitsValue(ds))
      [] v.t = "number" -> Num10(Trunc10(v.n))
      [] OTHER -> NaN

\* a < b on two values that are not both strings: both are converted with
\* ToNumber, and a comparison with NaN is false.
Lt(a, b) ==
    LET x == ToNumber(a)
        y == ToNumber(b)
    IN  CASE x.t = "NaN" \/ y.t = "NaN" -> FALSE
          [] x.t = "Infinity" -> FALSE
          [] y.t = "Infinity" -> TRUE
          [] OTHER -> x.n < y.n

Gt(a, b) == Lt(b, a)

\* a - b, a * b and a + b on numbers (operands are converted with ToNumber;
\* + is only applied to two numbers).  Infinity arises only from a division,
\* whose result is never an operand.  A product is exact in tenths when one
\* factor is an integer, which holds of every page number the model sends.
Sub(a, b) ==
    LET x == ToNumber(a)
        y == ToNumber(b)
    IN  IF x.t = "number" /\ y.t = "number" THEN Num10(x.n - y.n) ELSE NaN

Mul(a, b) ==
    LET x == ToNumber(a)
        y == ToNumber(b)
    IN  IF x.t = "number" /\ y.t = "number"
        THEN Num10((x.n * y.n) \div Scale)
        ELSE NaN

Add(a, b) ==
    IF a.t = "number" /\ b.t = "number" THEN Num10(a.n + b.n) ELSE NaN

\* Math.ceil(len / d) for an array length len.
MathCeilDiv(len, d) ==
    LET y == ToNumber(d)
    IN  CASE y.t = "NaN" -> NaN
          [] y.n = 0 -> IF len = 0 THEN NaN ELSE Infinity
          [] y.n > 0 -> Num((Scale * len + y.n - 1) \div y.n)
          [] OTHER -> Num(-((Scale * len) \div (-y.n)))

\* ToIntegerOrInfinity of a slice bound: NaN is 0, a fraction is truncated.
ToInteger(v) == IF v.t = "number" THEN Trunc10(v.n) \div Scale ELSE 0

\* Array.prototype.slice(start, end)
Slice(arr, start, end) ==
    LET len == Len(arr)
        rs == ToInteger(start)
        re == ToInteger(end)
        k == IF rs < 0 THEN (IF len + rs > 0 THEN len + rs ELSE 0)
             ELSE (IF rs < len THEN rs ELSE len)
        final == IF re < 0 THEN (IF len + re > 0 THEN len + re ELSE 0)
                 ELSE (IF re < len THEN re ELSE len)
    IN  SubSeq(arr, k + 1, final)

\* (sum / count).toFixed(1) for count > 0: the decimal string of the quotient
\* rounded to one fractional digit (a tie takes the larger digit), "NaN" for
\* NaN.  The sums of the model are not negative.
ToFixed1(sum, count) ==
    IF sum.t # "number" THEN Str(<<"N", "a", "N">>)
    ELSE LET r == (2 * sum.n + count) \div (2 * count)
         IN  Str(NatToChars(r \div Scale) \o <<".">> \o <<DigitChars[(r % Scale) + 1]>>)

(***************************************************************************)
(* Strings of the movie catalogue and the operations the listings use.      *)
(***************************************************************************)
UpperChars == <<"A", "B", "C", "D", "E", "F", "G", "H", "I", "J", "K", "L", "M",
                "N", "O", "P", "Q", "R", "S", "T", "U", "V", "W", "X", "Y", "Z">>
LowerChars == <<"a", "b", "c", "d", "e", "f", "g", "h", "i", "j", "k", "l", "m",
                "n", "o", "p", "q", "r", "s", "t", "u", "v", "w", "x", "y", "z">>

LowerChar(c) ==
    IF \E i \in 1..26 : UpperChars[i] = c
    THEN LowerChars[CHOOSE i \in 1..26 : UpperChars[i] = c]
    ELSE c

\* String.prototype.toLowerCase
ToLowerCase(cs) == SubSeq([i \in 1..Len(cs) |-> LowerChar(cs[i])], 1, Len(cs))

\* String.prototype.includes
Includes(cs, term) ==
    \E k \in 0..(Len(cs) - Len(term)) :
        \A i \in 1..Len(term) : cs[k + i] = term[i]

\* The collation rank of a character: white space and punctuation sort before
\* digits, digits before letters, and a letter's case is not a primary
\* difference.
CharRank(c) ==
    LET l == LowerChar(c)
    IN  IF \E i \in 1..26 : LowerChars[i] = l
        THEN 11 + (CHOOSE i \in 1..26 : LowerChars[i] = l)
        ELSE IF IsDigit(l) THEN 1 + DigitValue(l) + 1
        ELSE 0

\* String.prototype.localeCompare, by primary differences: negative, zero or
\* positive.  The catalogue's titles all differ in a letter.
RECURSIVE LocaleCompare(_, _)
LocaleCompare(a, b) ==
    IF a = <<>> THEN (IF b = <<>> THEN 0 ELSE -1)
    ELSE IF b = <<>> THEN 1
    ELSE IF CharRank(Head(a)) # CharRank(Head(b))
         THEN CharRank(Head(a)) - CharRank(Head(b))
    ELSE LocaleCompare(Tail(a), Tail(b))

Title1 ==
    <<"T", "h", "e", " ", "S", "h", "a", "w", "s", "h", "a", "n", "k", " ", "R", "e", "d",
       "e", "m", "p", "t", "i", "o", "n">>
Genre1 ==
    <<"D", "r", "a", "m", "a">>
Director1 ==
    <<"F", "r", "a", "n", "k", " ", "D", "a", "r", "a", "b", "o", "n", "t">>
Description1 ==
    <<"T", "w", "o", " ", "i", "m", "p", "r", "i", "s", "o", "n", "e", "d", " ", "m", "e",
       "n", " ", "b", "o", "n", "d", " ", "o", "v", "e", "r", " ", "a", " ", "n", "u", "m",
       "b", "e", "r", " ", "o", "f", " ", "y", "e", "a", "r", "s", ",", " ", "f", "i", "n",
       "d", "i", "n", "g", " ", "s", "o", "l", "a", "c", "e", " ", "a", "n", "d", " ", "e",
       "v", "e", "n", "t", "u", "a", "l", " ", "r", "e", "d", "e", "m", "p", "t", "i", "o",
       "n", " ", "t", "h", "r", "o", "u", "g", "h", " ", "a", "c", "t", "s", " ", "o", "f",
       " ", "c", "o", "m", "m", "o", "n", " ", "d", "e", "c", "e", "n", "c", "y", ".">>

Title2 ==
    <<"T", "h", "e", " ", "G", "o", "d", "f", "a", "t", "h", "e", "r">>
Genre2 ==
    <<"C", "r", "i", "m", "e">>
Director2 ==
    <<"F", "r", "a", "n", "c", "i", "s", " ", "F", "o", "r", "d", " ", "C", "o", "p", "p",
       "o", "l", "a">>
Description2 ==
    <<"T", "h", "e", " ", "a", "g", "i", "n", "g", " ", "p", "a", "t", "r", "i", "a", "r",
       "c", "h", " ", "o", "f", " ", "a", "n", " ", "o", "r", "g", "a", "n", "i", "z", "e",
       "d", " ", "c", "r", "i", "m", "e", " ", "d", "y", "n", "a", "s", "t", "y", " ", "t",
       "r", "a", "n", "s", "f", "e", "r", "s", " ", "c", "o", "n", "t", "r", "o", "l", " ",
       "o", "f", " ", "h", "i", "s", " ", "c", "l", "a", "n", "d", "e", "s", "t", "i", "n",
       "e", " ", "e", "m", "p", "i", "r", "e", " ", "t", "o", " ", "h", "i", "s", " ", "r",
       "e", "l", "u", "c", "t", "a", "n", "t", " ", "s", "o", "n", ".">>

Title3 ==
    <<"T", "h", "e", " ", "D", "a", "r", "k", " ", "K", "n", "i", "g", "h", "t">>
Genre3 ==
    <<"A", "c", "t", "i", "o", "n">>
Director3 ==
    <<"C", "h", "r", "i", "s", "t", "o", "p", "h", "e", "r", " ", "N", "o", "l", "a", "n">>
Description3 ==
    <<"W", "h", "e", "n", " ", "t", "h", "e", " ", "m", "e", "n", "a", "c", "e", " ", "k",
       "n", "o", "w", "n", " ", "a", "s", " ", "t", "h", "e", " ", "J", "o", "k", "e", "r",
       " ", "w", "r", "e", "a", "k", "s", " ", "h", "a", "v", "o", "c", " ", "a", "n", "d",
       " ", "c", "h", "a", "o", "s", " ", "o", "n", " ", "t", "h", "e", " ", "p", "e", "o",
       "p", "l", "e", " ", "o", "f", " ", "G", "o", "t", "h", "a", "m", ",", " ", "B", "a",
       "t", "m", "a", "n", " ", "m", "u", "s", "t", " ", "a", "c", "c", "e", "p", "t", " ",
       "o", "n", "e", " ", "o", "f", " ", "t", "h", "e", " ", "g", "r", "e", "a", "t", "e",
       "s", "t", " ", "p", "s", "y", "c", "h", "o", "l", "o", "g", "i", "c", "a", "l", " ",
       "a", "n", "d", " ", "p", "h", "y", "s", "i", "c", "a", "l", " ", "t", "e", "s", "t",
       "s", " ", "o", "f", " ", "h", "i", "s", " ", "a", "b", "i", "l", "i", "t", "y", " ",
       "t", "o", " ", "f", "i", "g", "h", "t", " ", "i", "n", "j", "u", "s", "t", "i", "c",
       "e", ".">>

Title4 ==
    <<"P", "u", "l", "p", " ", "F", "i", "c", "t", "i", "o", "n">>
Genre4 ==
    <<"C", "r", "i", "m", "e">>
Director4 ==
    <<"Q", "u", "e", "n", "t", "i", "n", " ", "T", "a", "r", "a", "n", "t", "i", "n", "o">>
Description4 ==
    <<"T", "h", "e", " ", "l", "i", "v", "e", "s", " ", "o", "f", " ", "t", "w", "o", " ",
       "m", "o", "b", " ", "h", "i", "t", "m", "e", "n", ",", " ", "a", " ", "b", "o", "x",
       "e", "r", ",", " ", "a", " ", "g", "a", "n", "g", "s", "t", "e", "r", " ", "a", "n",
       "d", " ", "h", "i", "s", " ", "w", "i", "f", "e", ",", " ", "a", "n", "d", " ", "a",
       " ", "p", "a", "i", "r", " ", "o", "f", " ", "d", "i", "n", "e", "r", " ", "b", "a",
       "n", "d", "i", "t", "s", " ", "i", "n", "t", "e", "r", "t", "w", "i", "n", "e", " ",
       "i", "n", " ", "f", "o", "u", "r", " ", "t", "a", "l", "e", "s", " ", "o", "f", " ",
       "v", "i", "o", "l", "e", "n", "c", "e", " ", "a", "n", "d", " ", "r", "e", "d", "e",
       "m", "p", "t", "i", "o", "n", ".">>

Title5 ==
    <<"F", "o", "r", "r", "e", "s", "t", " ", "G", "u", "m", "p">>
Genre5 ==
    <<"D", "r", "a", "m", "a">>
Director5 ==
    <<"R", "o", "b", "e", "r", "t", " ", "Z", "e", "m", "e", "c", "k", "i", "s">>
Description5 ==
    <<"T", "h", "e", " ", "p", "r", "e", "s", "i", "d", "e", "n", "c", "i", "e", "s", " ",
       "o", "f", " ", "K", "e", "n", "n", "e", "d", "y", " ", "a", "n", "d", " ", "J", "o",
       "h", "n", "s", "o", "n", ",", " ", "t", "h", "e", " ", "V", "i", "e", "t", "n", "a",
       "m", " ", "W", "a", "r", ",", " ", "t", "h", "e", " ", "W", "a", "t", "e", "r", "g",
       "a", "t", "e", " ", "s", "c", "a", "n", "d", "a", "l", " ", "a", "n", "d", " ", "o",
       "t", "h", "e", "r", " ", "h", "i", "s", "t", "o", "r", "i", "c", "a", "l", " ", "e",
       "v", "e", "n", "t", "s", " ", "u", "n", "f", "o", "l", "d", " ", "f", "r", "o", "m",
       " ", "t", "h", "e", " ", "p", "e", "r", "s", "p", "e", "c", "t", "i", "v", "e", " ",
       "o", "f", " ", "a", "n", " ", "A", "l", "a", "b", "a", "m", "a", " ", "m", "a", "n",
       " ", "w", "i", "t", "h", " ", "a", "n", " ", "I", "Q", " ", "o", "f", " ", "7", "5",
       ".">>


\* The movie records.  The movies array holds references to them; no handler
\* writes a field of a movie.  rating is in tenths; the poster URL, which no
\* handler reads, is left out.
MovieData ==
    <<[id |-> 1, title |-> Title1, year |-> 1994, rating |-> 93, genre |-> Genre1,
       director |-> Director1, duration |-> 142, description |-> Description1],
      [id |-> 2, title |-> Title2, year |-> 1972, rating |-> 92, genre |-> Genre2,
       director |-> Director2, duration |-> 175, description |-> Description2],
      [id |-> 3, title |-> Title3, year |-> 2008, rating |-> 90, genre |-> Genre3,
       director |-> Director3, duration |-> 152, description |-> Description3],
      [id |-> 4, title |-> Title4, year |-> 1994, rating |-> 89, genre |-> Genre4,
       director |-> Director4, duration |-> 154, description |-> Description4],
      [id |-> 5, title |-> Title5, year |-> 1994, rating |-> 88, genre |-> Genre5,
       director |-> Director5, duration |-> 142, description |-> Description5]>>

MovieIds == 1..Len(MovieData)

\* movie.title.toLowerCase(), movie.director.toLowerCase(), ... of a movie.
LowerCase(movie) ==
    [title |-> ToLowerCase(movie.title),
     director |-> ToLowerCase(movie.director),
     description |-> ToLowerCase(movie.description),
     genre |-> ToLowerCase(movie.genre)]

\* The lower-cased fields of each movie, by identifier.
LowerCased ==
    <<LowerCase(MovieData[1]), LowerCase(MovieData[2]), LowerCase(MovieData[3]),
      LowerCase(MovieData[4]), LowerCase(MovieData[5])>>

\* Array.prototype.filter is Sequences' SelectSeq.

Elements(arr) == {arr[i] : i \in 1..Len(arr)}

\* An element put into a sorted array behind every element it does not
\* precede; cmp[a, b] is the comparator's result on a and b.
RECURSIVE InsertSorted(_, _, _)
InsertSorted(sorted, e, cmp) ==
    IF sorted = <<>> THEN <<e>>
    ELSE IF cmp[e, sorted[Len(sorted)]] < 0
         THEN InsertSorted(SubSeq(sorted, 1, Len(sorted) - 1), e, cmp)
                  \o <<sorted[Len(sorted)]>>
    ELSE sorted \o <<e>>

\* Array.prototype.sort with a comparator: a stable sort.
RECURSIVE Sort(_, _)
Sort(arr, cmp) ==
    IF arr = <<>> THEN <<>>
    ELSE InsertSorted(Sort(SubSeq(arr, 1, Len(arr) - 1), cmp), arr[Len(arr)], cmp)

(***************************************************************************)
(* State.                                                                   *)
(*   movies, reviews   the in-memory application's two global arrays        *)
(*   now               the time the next `new Date()` returns               *)
(*   req, res          the request being answered and the response its      *)
(*                     handler passed to res.status(..).json(..)            *)
(*   issued            the review identifiers handed out so far: those of   *)
(*                     the sample reviews and of every 201 answer           *)
(*   fsReviews         the documents of the Firestore collection 'reviews'  *)
(*   fsNextId          the next document identifier Firestore generates     *)
(*   fsTime            the Firestore server's time                          *)
(*   fsCalls           the router's requests in flight, with their          *)
(*                     position and locals                                  *)
(***************************************************************************)
VARIABLES movies, reviews, now, req, res, issued,
          fsReviews, fsNextId, fsTime, fsCalls

vars == <<movies, reviews, now, req, res, issued, fsReviews, fsNextId, fsTime, fsCalls>>
appVars == <<movies, reviews, now, req, res, issued>>
fsVars == <<fsReviews, fsNextId, fsTime, fsCalls>>

user123 == Str(<<"u", "s", "e", "r", "1", "2", "3">>)
user456 == Str(<<"u", "s", "e", "r", "4", "5", "6">>)
user789 == Str(<<"u", "s", "e", "r", "7", "8", "9">>)

\* The sample reviews.  Dates are days of the year 2024; a body is cut to its
\* first sentence (no handler reads a stored body).
SampleReviews ==
    <<[id |-> Num(1), movieId |-> Num(1), userId |-> user123,
       userName |-> Str(<<"J", "o", "h", "n", " ", "D", "o", "e">>),
       rating |-> Num(5),
       text |-> Str(<<"A", "m", "a", "z", "i", "n", "g", " ", "m", "o", "v", "i", "e", "!">>),
       createdAt |-> 15, updatedAt |-> 15],
      [id |-> Num(2), movieId |-> Num(1), userId |-> user456,
       userName |-> Str(<<"J", "a", "n", "e", " ", "S", "m", "i", "t", "h">>),
       rating |-> Num(4),
       text |-> Str(<<"G", "r", "e", "a", "t", " ", "s", "t", "o", "r", "y", ".">>),
       createdAt |-> 20, updatedAt |-> 20],
      [id |-> Num(3), movieId |-> Num(2), userId |-> user789,
       userName |-> Str(<<"M", "i", "k", "e", " ", "J", "o", "h", "n", "s", "o", "n">>),
       rating |-> Num(5),
       text |-> Str(<<"T", "h", "e", " ", "b", "e", "s", "t", ".">>),
       createdAt |-> 32, updatedAt |-> 32]>>

\* The server starts after the last sample date.
StartTime == SampleReviews[Len(SampleReviews)].createdAt + 1

NoRequest == [op |-> "none"]
NoResponse == [status |-> 0, error |-> "", json |-> <<>>]

\* res.status(code).json({ error })
Failure(code, message) == [status |-> code, error |-> message, json |-> <<>>]
\* res.status(code).json(value)
Success(code, value) == [status |-> code, error |-> "", json |-> value]

\* a === b on two values of the model (NaN equals nothing).
StrictEq(a, b) == a = b /\ a.t # "NaN"

\* A destructuring default: `{ page = 1 } = req.query`.
Default(v, d) == IF v.t = "undefined" THEN d ELSE v

\* A pagination whose slice runs one element past endIndex.
PaginateInclusive(arr, page, limit) ==
    LET startIndex == Mul(Sub(page, Num(1)), limit)
        endIndex == Add(startIndex, ParseInt(limit))
    IN  [items |-> Slice(arr, startIndex, Add(endIndex, Num(1))),
         startIndex |-> startIndex,
         endIndex |-> endIndex,
         currentPage |-> ParseInt(page),
         totalPages |-> MathCeilDiv(Len(arr), limit),
         total |-> Len(arr),
         hasNextPage |-> Lt(endIndex, Num(Len(arr))),
         hasPrevPage |-> Gt(startIndex, Num(0))]

\* The pagination block the three listings share: startIndex, endIndex, the
\* slice, and the numbers the response reports.
Paginate(arr, page, limit) ==
    LET startIndex == Mul(Sub(page, Num(1)), limit)
        endIndex == Add(startIndex, ParseInt(limit))
    IN  [items |-> Slice(arr, startIndex, endIndex),
         startIndex |-> startIndex,
         endIndex |-> endIndex,
         currentPage |-> ParseInt(page),
         totalPages |-> MathCeilDiv(Len(arr), limit),
         total |-> Len(arr),
         hasNextPage |-> Lt(endIndex, Num(Len(arr))),
         hasPrevPage |-> Gt(startIndex, Num(0))]

\* The comparator of the movie listing's sort, on two movie identifiers.
MovieCmp(sortBy) ==
    [a \in MovieIds, b \in MovieIds |->
        CASE sortBy = Str(<<"y", "e", "a", "r">>) ->
                MovieData[b].year - MovieData[a].year
          [] sortBy = Str(<<"r", "a", "t", "i", "n", "g">>) ->
                MovieData[b].rating - MovieData[a].rating
          [] OTHER -> LocaleCompare(MovieData[a].title, MovieData[b].title)]

\* The reviews whose movieId is strictly equal to movieId, in store order.
ReviewsOf(movieId) == SelectSeq(reviews, LAMBDA r : StrictEq(r.movieId, movieId))

\* reduce((sum, r) => sum + r.rating, 0)
RECURSIVE SumRatings(_)
SumRatings(rs) ==
    IF rs = <<>> THEN Num(0)
    ELSE Add(SumRatings(SubSeq(rs, 1, Len(rs) - 1)), rs[Len(rs)].rating)

\* length > 0 ? (sum / length).toFixed(1) : 0
AverageRating(rs) == IF Len(rs) > 0 THEN ToFixed1(SumRatings(rs), Len(rs)) ELSE Num(0)

\* The comparator of the review listing's sort: newest first.
ReviewCmp(rs) ==
    [a \in Elements(rs), b \in Elements(rs) |-> b.createdAt - a.createdAt]

\* The application takes up a request when no response is waiting to be
\* sent: a handler runs from the request to its response without a break.
Idle == res = NoResponse

\* The body of the movie listing's response, from the pagination block.
MoviesJson(p) ==
    [movies |-> p.items,
     currentPage |-> p.currentPage,
     totalPages |-> p.totalPages,
     totalMovies |-> p.total,
     hasNextPage |-> p.hasNextPage,
     hasPrevPage |-> p.hasPrevPage]

\* The body of the review listing's response, from the pagination block.
ReviewsJson(p) ==
    [reviews |-> p.items,
     currentPage |-> p.currentPage,
     totalPages |-> p.totalPages,
     totalReviews |-> p.total,
     hasNextPage |-> p.hasNextPage,
     hasPrevPage |-> p.hasPrevPage]

(***************************************************************************)
(* GET /api/movies                                                          *)
(***************************************************************************)
ListMovies(query) ==
    LET page == Default(query.page, Num(1))
        limit == Default(query.limit, Num(10))
        search == Default(query.search, Str(<<>>))
        genre == Default(query.genre, Str(<<>>))
        sortBy == Default(query.sortBy, Str(<<"t", "i", "t", "l", "e">>))
        term == ToLowerCase(search.s)
        searched ==
            IF ToBoolean(search)
            THEN SelectSeq(movies, LAMBDA m :
                     \/ Includes(LowerCased[m].title, term)
                     \/ Includes(LowerCased[m].director, term)
                     \/ Includes(LowerCased[m].description, term))
            ELSE movies
        filtered ==
            IF ToBoolean(genre)
            THEN SelectSeq(searched, LAMBDA m :
                     LowerCased[m].genre = ToLowerCase(genre.s))
            ELSE searched
        \* With neither filter, filteredMovies is the movies array itself, and
        \* sort() sorts it in place.
        sameArray == ~ToBoolean(search) /\ ~ToBoolean(genre)
        sorted == Sort(filtered, MovieCmp(sortBy))
    IN  /\ req' = [op |-> "listMovies", query |-> query]
        /\ movies' = IF sameArray THEN sorted ELSE movies
        /\ res' = Success(200, MoviesJson(Paginate(sorted, page, limit)))
        /\ UNCHANGED <<reviews, now, issued>>

(***************************************************************************)
(* GET /api/movies/:id                                                      *)
(***************************************************************************)
GetMovie(id) ==
    LET movieId == ParseInt(id)
        found == SelectSeq(movies, LAMBDA m : StrictEq(Num(MovieData[m].id), movieId))
        movieReviews == ReviewsOf(movieId)
    IN  /\ req' = [op |-> "getMovie", id |-> id]
        /\ res' = IF found = <<>>
                  THEN Failure(404, "Movie not found")
                  ELSE Success(200, [movie |-> Head(found),
                                     reviews |-> movieReviews,
                                     reviewCount |-> Len(movieReviews),
                                     averageRating |-> AverageRating(movieReviews)])
        /\ UNCHANGED <<movies, reviews, now, issued>>

(***************************************************************************)
(* GET /api/movies/:id/reviews                                              *)
(***************************************************************************)
ListReviews(id, query) ==
    LET movieId == ParseInt(id)
        page == Default(query.page, Num(1))
        limit == Default(query.limit, Num(10))
        movieReviews == ReviewsOf(movieId)
        sorted == Sort(movieReviews, ReviewCmp(movieReviews))
    IN  /\ req' = [op |-> "listReviews", id |-> id, query |-> query]
        /\ res' = Success(200, ReviewsJson(Paginate(sorted, page, limit)))
        /\ UNCHANGED <<movies, reviews, now, issued>>

(***************************************************************************)
(* POST /api/reviews                                                        *)
(***************************************************************************)
\* reviews.length > 0 ? Math.max(...reviews.map(r => r.id)) + 1 : 1
NextReviewId ==
    IF Len(reviews) > 0
    THEN LET ids == {reviews[i].id.n : i \in 1..Len(reviews)}
         IN  Num10((CHOOSE m \in ids : \A k \in ids : k <= m) + Scale)
    ELSE Num(1)

\* rating < 1 || rating > 5
RatingOutOfRange(rating) == Lt(rating, Num(1)) \/ Gt(rating, Num(5))

\* movies.some(m => m.id === parseInt(movieId))
MovieExists(movieId) ==
    \E i \in 1..Len(movies) : StrictEq(Num(MovieData[movies[i]].id), ParseInt(movieId))

\* An existence test that compares the stored movieId with the supplied one
\* as it was sent.
HasExistingReviewUnparsed(movieId, userId) ==
    \E i \in 1..Len(reviews) :
        /\ StrictEq(reviews[i].movieId, movieId)
        /\ StrictEq(reviews[i].userId, userId)

\* reviews.find(r => r.movieId === parseInt(movieId) && r.userId === userId)
HasExistingReview(movieId, userId) ==
    \E i \in 1..Len(reviews) :
        /\ StrictEq(reviews[i].movieId, ParseInt(movieId))
        /\ StrictEq(reviews[i].userId, userId)

CreateReview(body) ==
    LET newReview == [id |-> NextReviewId,
                      movieId |-> ParseInt(body.movieId),
                      userId |-> body.userId,
                      userName |-> body.userName,
                      rating |-> ParseInt(body.rating),
                      text |-> Str(Trim(body.text.s)),
                      createdAt |-> now,
                      updatedAt |-> now]
    IN  /\ now < StartTime + MaxRequests
        /\ req' = [op |-> "createReview", body |-> body]
        /\ IF \/ ~ToBoolean(body.movieId) \/ ~ToBoolean(body.userId)
              \/ ~ToBoolean(body.userName) \/ ~ToBoolean(body.rating)
              \/ ~ToBoolean(body.text)
           THEN /\ res' = Failure(400, "Movie ID, user ID, user name, rating, and text are required")
                /\ UNCHANGED <<reviews, now, issued>>
           ELSE IF RatingOutOfRange(body.rating)
           THEN /\ res' = Failure(400, "Rating must be between 1 and 5")
                /\ UNCHANGED <<reviews, now, issued>>
           ELSE IF ~MovieExists(body.movieId)
           THEN /\ res' = Failure(404, "Movie not found")
                /\ UNCHANGED <<reviews, now, issued>>
           ELSE IF HasExistingReview(body.movieId, body.userId)
           THEN /\ res' = Failure(400, "You have already reviewed this movie")
                /\ UNCHANGED <<reviews, now, issued>>
           ELSE IF body.text.t # "string"
           \* text.trim is not a function: the TypeError is caught.
           THEN /\ res' = Failure(500, "Failed to create review")
                /\ UNCHANGED <<reviews, now, issued>>
           ELSE /\ reviews' = Append(reviews, newReview)
                /\ now' = now + 1
                /\ issued' = issued \cup {newReview.id}
                /\ res' = Success(201, newReview)
        /\ UNCHANGED movies

\* reviews.findIndex(r => r.id === reviewId): 0 stands for -1.
FindIndex(reviewId) ==
    IF \E i \in 1..Len(reviews) : StrictEq(reviews[i].id, reviewId)
    THEN CHOOSE i \in 1..Len(reviews) :
            /\ StrictEq(reviews[i].id, reviewId)
            /\ \A j \in 1..(i - 1) : ~StrictEq(reviews[j].id, reviewId)
    ELSE 0

\* An update that assigns the rating whether or not the request supplies one.
UpdateReviewOverwriting(caller, id, body) ==
    LET reviewIndex == FindIndex(ParseInt(id))
        old == reviews[reviewIndex]
        rated == [old EXCEPT !.rating = ParseInt(body.rating)]
        texted == IF ToBoolean(body.text)
                  THEN [rated EXCEPT !.text = Str(Trim(body.text.s))]
                  ELSE rated
        updated == [texted EXCEPT !.updatedAt = now]
    IN  /\ now < StartTime + MaxRequests
        /\ req' = [op |-> "updateReview", caller |-> caller, id |-> id, body |-> body]
        /\ IF reviewIndex = 0
           THEN /\ res' = Failure(404, "Review not found")
                /\ UNCHANGED <<reviews, now>>
           ELSE IF ~StrictEq(old.userId, body.userId)
           THEN /\ res' = Failure(403, "You can only update your own reviews")
                /\ UNCHANGED <<reviews, now>>
           ELSE IF ToBoolean(body.rating) /\ RatingOutOfRange(body.rating)
           THEN /\ res' = Failure(400, "Rating must be between 1 and 5")
                /\ UNCHANGED <<reviews, now>>
           ELSE IF ToBoolean(body.text) /\ body.text.t # "string"
           \* text.trim is not a function: the TypeError is caught after the
           \* rating was assigned and before updatedAt is.
           THEN /\ reviews' = [reviews EXCEPT ![reviewIndex] = rated]
                /\ res' = Failure(500, "Failed to update review")
                /\ UNCHANGED now
           ELSE /\ reviews' = [reviews EXCEPT ![reviewIndex] = updated]
                /\ now' = now + 1
                /\ res' = Success(200, updated)
        /\ UNCHANGED <<movies, issued>>

(***************************************************************************)
(* PUT /api/reviews/:id                                                     *)
(* caller is who sends the request; the handler has no way to learn it and  *)
(* reads the userId field of the body.                                      *)
(***************************************************************************)
UpdateReview(caller, id, body) ==
    LET reviewIndex == FindIndex(ParseInt(id))
        old == reviews[reviewIndex]
        rated == IF ToBoolean(body.rating)
                 THEN [old EXCEPT !.rating = ParseInt(body.rating)]
                 ELSE old
        texted == IF ToBoolean(body.text)
                  THEN [rated EXCEPT !.text = Str(Trim(body.text.s))]
                  ELSE rated
        updated == [texted EXCEPT !.updatedAt = now]
    IN  /\ now < StartTime + MaxRequests
        /\ req' = [op |-> "updateReview", caller |-> caller, id |-> id, body |-> body]
        /\ IF reviewIndex = 0
           THEN /\ res' = Failure(404, "Review not found")
                /\ UNCHANGED <<reviews, now>>
           ELSE IF ~StrictEq(old.userId, body.userId)
           THEN /\ res' = Failure(403, "You can only update your own reviews")
                /\ UNCHANGED <<reviews, now>>
           ELSE IF ToBoolean(body.rating) /\ RatingOutOfRange(body.rating)
           THEN /\ res' = Failure(400, "Rating must be between 1 and 5")
                /\ UNCHANGED <<reviews, now>>
           ELSE IF ToBoolean(body.text) /\ body.text.t # "string"
           \* text.trim is not a function: the TypeError is caught after the
           \* rating was assigned and before updatedAt is.
           THEN /\ reviews' = [reviews EXCEPT ![reviewIndex] = rated]
                /\ res' = Failure(500, "Failed to update review")
                /\ UNCHANGED now
           ELSE /\ reviews' = [reviews EXCEPT ![reviewIndex] = updated]
                /\ now' = now + 1
                /\ res' = Success(200, updated)
        /\ UNCHANGED <<movies, issued>>

(***************************************************************************)
(* DELETE /api/reviews/:id                                                  *)
(***************************************************************************)
\* reviews.splice(index, 1)
Splice(arr, index) == SubSeq(arr, 1, index - 1) \o SubSeq(arr, index + 1, Len(arr))

DeleteReview(caller, id, body) ==
    LET reviewIndex == FindIndex(ParseInt(id))
    IN  /\ req' = [op |-> "deleteReview", caller |-> caller, id |-> id, body |-> body]
        /\ IF reviewIndex = 0
           THEN /\ res' = Failure(404, "Review not found")
                /\ UNCHANGED reviews
           ELSE IF ~StrictEq(reviews[reviewIndex].userId, body.userId)
           THEN /\ res' = Failure(403, "You can only delete your own reviews")
                /\ UNCHANGED reviews
           ELSE /\ reviews' = Splice(reviews, reviewIndex)
                /\ res' = Success(200, [message |-> "Review deleted successfully"])
        /\ UNCHANGED <<movies, now, issued>>

(***************************************************************************)
(* GET /api/search                                                          *)
(***************************************************************************)
\* parseFloat of a string: leading white space is dropped, then an optional
\* sign, digits and an optional fraction are read; no digit gives NaN.
ParseFloat(v) ==
    IF v.t # "string" THEN (IF v.t = "number" THEN v ELSE NaN)
    ELSE LET t == TrimStart(v.s)
             body == Unsigned(t)
             ip == DigitPrefix(body)
             rest == SubSeq(body, Len(ip) + 1, Len(body))
             fp == IF rest # <<>> /\ Head(rest) = "." THEN DigitPrefix(Tail(rest)) ELSE <<>>
         IN  IF ip = <<>> /\ fp = <<>> THEN NaN
             ELSE Num10(SignOf(t) * (Scale * DigitsValue(ip)
                        + (IF fp = <<>> THEN 0 ELSE DigitValue(fp[1]))))

\* The body of the search response, from the pagination block and the query.
SearchJson(p, query) ==
    [movies |-> p.items,
     currentPage |-> p.currentPage,
     totalPages |-> p.totalPages,
     totalResults |-> p.total,
     searchQuery |-> query.q,
     filters |-> [genre |-> query.genre, year |-> query.year, rating |-> query.rating]]

SearchMovies(query) ==
    LET q == query.q
        genre == query.genre
        year == query.year
        rating == query.rating
        page == Default(query.page, Num(1))
        limit == Default(query.limit, Num(10))
        searchTerm == ToLowerCase(q.s)
        byText ==
            IF ToBoolean(q)
            THEN SelectSeq(movies, LAMBDA m :
                     \/ Includes(LowerCased[m].title, searchTerm)
                     \/ Includes(LowerCased[m].director, searchTerm)
                     \/ Includes(LowerCased[m].description, searchTerm)
                     \/ Includes(LowerCased[m].genre, searchTerm))
            ELSE movies
        byGenre ==
            IF ToBoolean(genre)
            THEN SelectSeq(byText, LAMBDA m :
                     LowerCased[m].genre = ToLowerCase(genre.s))
            ELSE byText
        byYear ==
            IF ToBoolean(year)
            THEN SelectSeq(byGenre, LAMBDA m :
                     StrictEq(Num(MovieData[m].year), ParseInt(year)))
            ELSE byGenre
        minRating == ParseFloat(rating)
        byRating ==
            IF ToBoolean(rating)
            THEN SelectSeq(byYear, LAMBDA m :
                     minRating.t = "number" /\ MovieData[m].rating >= minRating.n)
            ELSE byYear
        \* Every search applies a filter, so the sorted array is never the
        \* movies array itself.
        searchResults == Sort(byRating, MovieCmp(Str(<<"r", "a", "t", "i", "n", "g">>)))
    IN  /\ req' = [op |-> "searchMovies", query |-> query]
        /\ res' = IF ~ToBoolean(q) /\ ~ToBoolean(genre) /\ ~ToBoolean(year) /\ ~ToBoolean(rating)
                  THEN Failure(400, "At least one search parameter is required (q, genre, year, or rating)")
                  ELSE Success(200, SearchJson(Paginate(searchResults, page, limit), query))
        /\ UNCHANGED <<movies, reviews, now, issued>>

(***************************************************************************)
(* GET /api/stats                                                           *)
(***************************************************************************)
\* movies.reduce((acc, movie) => { acc[key] = (acc[key] || 0) + 1 ... }, {})
CountBy(Key(_)) ==
    [k \in {Key(MovieData[movies[i]]) : i \in 1..Len(movies)} |->
        Cardinality({i \in 1..Len(movies) : Key(MovieData[movies[i]]) = k})]

Stats ==
    /\ req' = [op |-> "stats"]
    /\ res' = Success(200, [totalMovies |-> Len(movies),
                            totalReviews |-> Len(reviews),
                            averageRating |-> AverageRating(reviews),
                            genreStats |-> CountBy(LAMBDA m : m.genre),
                            yearStats |-> CountBy(LAMBDA m : m.year)])
    /\ UNCHANGED <<movies, reviews, now, issued>>

\* The response is sent and the request ends.
Finish ==
    /\ ~Idle
    /\ req' = NoRequest
    /\ res' = NoResponse
    /\ UNCHANGED <<movies, reviews, now, issued>>

(***************************************************************************)
(* The Firestore-backed review router (routes/reviews.js).  A handler runs  *)
(* to its next `await`; between two awaits of one request the steps of      *)
(* other requests may run.  Each read and each write of the collection is   *)
(* one step.                                                                *)
(***************************************************************************)
\* Requests the router has in flight at once.
FsSlots == {1, 2}

FsIdle == [pc |-> "idle"]

\* A request whose handler has answered.
FsDone(call, response) == [pc |-> "done", route |-> call.route, res |-> response]

\* The documents a query with two equality filters returns.
FsWhere(movieId, userId) ==
    {d \in DOMAIN fsReviews :
        /\ StrictEq(fsReviews[d].movieId, movieId)
        /\ StrictEq(fsReviews[d].userId, userId)}

\* The request arrives and verifyToken reads the Authorization header.  A
\* token is absent, invalid, or names the user it was issued to.
FsReceive(slot, route, token, reviewId, body) ==
    /\ fsCalls[slot].pc = "idle"
    /\ fsTime < MaxFsRequests
    /\ fsTime' = fsTime + 1
    /\ fsCalls' = [fsCalls EXCEPT ![slot] =
            IF token.kind = "none"
            THEN FsDone([route |-> route], Failure(401, "No token provided"))
            ELSE [pc |-> "verify", route |-> route, token |-> token,
                  reviewId |-> reviewId, body |-> body]]
    /\ UNCHANGED <<fsReviews, fsNextId>>

\* rating < 1 || rating > 5 after the required-field test of the route.
FsInvalid(call) ==
    IF call.route = "post"
    THEN IF \/ ~ToBoolean(call.body.movieId) \/ ~ToBoolean(call.body.rating)
            \/ ~ToBoolean(call.body.text)
         THEN "Movie ID, rating, and text are required"
         ELSE IF RatingOutOfRange(call.body.rating)
         THEN "Rating must be between 1 and 5"
         ELSE ""
    ELSE IF call.route = "put"
    THEN IF ~ToBoolean(call.body.rating) \/ ~ToBoolean(call.body.text)
         THEN "Rating and text are required"
         ELSE IF RatingOutOfRange(call.body.rating)
         THEN "Rating must be between 1 and 5"
         ELSE ""
    ELSE ""

\* verifyIdToken settles: req.user is the decoded token, and the handler runs
\* to its first await (the query of POST, the document read of PUT and
\* DELETE).
FsVerified(slot) ==
    LET call == fsCalls[slot]
    IN  /\ call.pc = "verify"
        /\ fsCalls' = [fsCalls EXCEPT ![slot] =
                IF call.token.kind = "invalid"
                THEN FsDone(call, Failure(401, "Invalid token"))
                ELSE IF FsInvalid(call) # ""
                THEN FsDone(call, Failure(400, FsInvalid(call)))
                ELSE [pc |-> "read", route |-> call.route, uid |-> call.token.uid,
                      reviewId |-> call.reviewId, body |-> call.body]]
        /\ UNCHANGED <<fsReviews, fsNextId, fsTime>>

\* POST /: the query for an existing review returns; without one the handler
\* builds reviewData (text.trim() throws on a text that is no string) and
\* calls add().
FsPostQueried(slot) ==
    LET call == fsCalls[slot]
    IN  /\ call.pc = "read"
        /\ call.route = "post"
        /\ fsCalls' = [fsCalls EXCEPT ![slot] =
                IF FsWhere(call.body.movieId, call.uid) # {}
                THEN FsDone(call, Failure(400, "You have already reviewed this movie"))
                ELSE IF call.body.text.t # "string"
                THEN FsDone(call, Failure(500, "Failed to create review"))
                ELSE [pc |-> "write", route |-> call.route, uid |-> call.uid,
                      reviewId |-> call.reviewId, body |-> call.body]]
        /\ UNCHANGED <<fsReviews, fsNextId, fsTime>>

\* POST /: add() stores the document under a generated identifier.
FsPostAdded(slot) ==
    LET call == fsCalls[slot]
        reviewData == [movieId |-> call.body.movieId,
                       userId |-> call.uid,
                       rating |-> call.body.rating,
                       text |-> Str(Trim(call.body.text.s)),
                       createdAt |-> fsTime,
                       updatedAt |-> fsTime]
    IN  /\ call.pc = "write"
        /\ call.route = "post"
        /\ fsReviews' = fsReviews @@ (fsNextId :> reviewData)
        /\ fsNextId' = fsNextId + 1
        /\ fsCalls' = [fsCalls EXCEPT ![slot] =
                FsDone(call, Success(201, [id |-> fsNextId, data |-> reviewData]))]
        /\ UNCHANGED fsTime

\* PUT /:reviewId and DELETE /:reviewId: the document read returns, and the
\* handler checks that the document exists and that its userId is req.user's.
FsGot(slot) ==
    LET call == fsCalls[slot]
    IN  /\ call.pc = "read"
        /\ call.route \in {"put", "delete"}
        /\ fsCalls' = [fsCalls EXCEPT ![slot] =
                IF call.reviewId \notin DOMAIN fsReviews
                THEN FsDone(call, Failure(404, "Review not found"))
                ELSE IF ~StrictEq(fsReviews[call.reviewId].userId, call.uid)
                THEN FsDone(call, Failure(403,
                        IF call.route = "put"
                        THEN "You can only update your own reviews"
                        ELSE "You can only delete your own reviews"))
                ELSE IF call.route = "put" /\ call.body.text.t # "string"
                THEN FsDone(call, Failure(500, "Failed to update review"))
                ELSE [pc |-> "write", route |-> call.route, uid |-> call.uid,
                      reviewId |-> call.reviewId, body |-> call.body]]
        /\ UNCHANGED <<fsReviews, fsNextId, fsTime>>

\* PUT /:reviewId: update() writes rating, text and updatedAt; it fails on a
\* document that no longer exists.
FsPutUpdated(slot) ==
    LET call == fsCalls[slot]
    IN  /\ call.pc = "write"
        /\ call.route = "put"
        /\ IF call.reviewId \in DOMAIN fsReviews
           THEN /\ fsReviews' = [fsReviews EXCEPT ![call.reviewId] =
                        [@ EXCEPT !.rating = call.body.rating,
                                  !.text = Str(Trim(call.body.text.s)),
                                  !.updatedAt = fsTime]]
                /\ fsCalls' = [fsCalls EXCEPT ![slot] =
                        FsDone(call, Success(200, [message |-> "Review updated successfully"]))]
           ELSE /\ fsCalls' = [fsCalls EXCEPT ![slot] =
                        FsDone(call, Failure(500, "Failed to update review"))]
                /\ UNCHANGED fsReviews
        /\ UNCHANGED <<fsNextId, fsTime>>

\* DELETE /:reviewId: delete() removes the document, if it is still there.
FsDeleted(slot) ==
    LET call == fsCalls[slot]
    IN  /\ call.pc = "write"
        /\ call.route = "delete"
        /\ fsReviews' = [d \in DOMAIN fsReviews \ {call.reviewId} |-> fsReviews[d]]
        /\ fsCalls' = [fsCalls EXCEPT ![slot] =
                FsDone(call, Success(200, [message |-> "Review deleted successfully"]))]
        /\ UNCHANGED <<fsNextId, fsTime>>

\* The response is sent and the request ends.
FsFinish(slot) ==
    /\ fsCalls[slot].pc = "done"
    /\ fsCalls' = [fsCalls EXCEPT ![slot] = FsIdle]
    /\ UNCHANGED <<fsReviews, fsNextId, fsTime>>

(***************************************************************************)
(* Requests.                                                                *)
(***************************************************************************)
u1 == Str(<<"u", "1">>)
Ann == Str(<<"A", "n", "n">>)
Great == Str(<<" ", "G", "r", "e", "a", "t", " ">>)
Blank == Str(<<" ">>)

\* Who sends a write request: the author of sample review 1 and a new user.
Callers == {user123, u1}
UserIdInputs == {user123, u1, Undefined}
MovieIdInputs == {Num(1), Str(<<"1">>), Num(9), Undefined}
RatingInputs == {Undefined, Num(0), Num(1), Num(5), Num(6), Num10(45),
                 Str(<<"9", "a", "b", "c">>)}
TextInputs == {Undefined, Blank, Great, Num(7)}
\* Review 1 is a sample review, review 4 the first one a run creates.
ReviewIdInputs == {Str(<<"1">>), Str(<<"4">>), Str(<<"a", "b", "c">>)}
MovieParamInputs == {Str(<<"1">>), Str(<<"2">>), Str(<<"9">>), Str(<<"x">>)}

\* A rating with a valid text, or a text with a valid or absent rating.
RatingTextInputs ==
    (RatingInputs \X {Great}) \cup ({Num(5), Undefined} \X TextInputs)

\* Bodies of POST /api/reviews: every movie and user with a valid rating and
\* text, every rating and text from a new user, and a missing user name.
CreateBodies ==
    {[movieId |-> m, userId |-> u, userName |-> Ann, rating |-> Num(5), text |-> Great] :
        m \in MovieIdInputs, u \in UserIdInputs}
    \cup {[movieId |-> Num(1), userId |-> u1, userName |-> Ann, rating |-> p[1], text |-> p[2]] :
            p \in RatingTextInputs}
    \cup {[movieId |-> Num(1), userId |-> u1, userName |-> Undefined, rating |-> Num(5),
           text |-> Great]}

\* PUT /api/reviews/:id: every caller, review and userId field with one
\* rating, and every rating and text from a caller who sends its own userId.
UpdateRequests ==
    {r \in [caller : Callers, id : ReviewIdInputs,
            body : {[rating |-> p[1], text |-> p[2], userId |-> u] :
                        p \in RatingTextInputs, u \in UserIdInputs}] :
        \/ r.body.rating = Num(1) /\ r.body.text = Great
        \/ r.caller = r.body.userId}

DeleteRequests ==
    {[caller |-> c, id |-> i, body |-> [userId |-> u]] :
        c \in Callers, i \in ReviewIdInputs, u \in UserIdInputs}

\* page and limit of a listing: absent, not a number, or a number from -1.
PageInputs ==
    {Undefined, Str(<<"a", "b", "c">>)} \cup {Str(IntToChars(i)) : i \in (-1)..MaxPage}
LimitInputs ==
    {Undefined, Str(<<"a", "b", "c">>)} \cup {Str(IntToChars(i)) : i \in (-1)..MaxLimit}

Two == Str(<<"2">>)

\* Queries of GET /api/movies: every page and limit over the whole catalogue
\* and over one genre, and every search, genre and order with a few pages.
ListMoviesQueries ==
    [page : PageInputs, limit : LimitInputs, search : {Undefined},
     genre : {Undefined, Str(<<"c", "r", "i", "m", "e">>)}, sortBy : {Undefined}]
    \cup
    [page : {Undefined, Two}, limit : {Undefined, Two},
     search : {Undefined, Str(<<"d", "a", "r", "k">>), Str(<<"T", "H", "E">>)},
     genre : {Undefined, Str(<<"c", "r", "i", "m", "e">>)},
     sortBy : {Undefined, Str(<<"y", "e", "a", "r">>), Str(<<"r", "a", "t", "i", "n", "g">>)}]

ListReviewsQueries == [page : PageInputs, limit : LimitInputs]

\* Queries of GET /api/search: every page and limit over one genre, and every
\* combination of filters with a few pages.
SearchQueries ==
    [page : PageInputs, limit : LimitInputs, q : {Undefined},
     genre : {Str(<<"D", "R", "A", "M", "A">>)}, year : {Undefined}, rating : {Undefined}]
    \cup
    [page : {Undefined, Two}, limit : {Undefined, Two},
     q : {Undefined, Str(<<"c", "r", "i", "m", "e">>)},
     genre : {Undefined, Str(<<"D", "R", "A", "M", "A">>)},
     year : {Undefined, Str(<<"1", "9", "9", "4">>)},
     rating : {Undefined, Str(<<"8", ".", "9">>), Str(<<"x">>)}]

FsUsers == {Str(<<"a", "l", "i", "c", "e">>), Str(<<"b", "o", "b">>)}
FsTokens ==
    {[kind |-> "none"], [kind |-> "invalid"]} \cup {[kind |-> "valid", uid |-> u] : u \in FsUsers}
FsPostBodies ==
    [movieId : {Str(<<"1">>), Str(<<"x">>)}, rating : {Num(5), Num(0), Num10(45)},
     text : {Great, Undefined}]
FsPutBodies == [rating : {Num(1), Num(6)}, text : {Great, Num(7)}]
FsReviewIds == 1..2

(***************************************************************************)
(* Specifications.                                                          *)
(***************************************************************************)
Init ==
    /\ movies = [i \in MovieIds |-> MovieData[i].id]
    /\ reviews = SampleReviews
    /\ now = StartTime
    /\ req = NoRequest
    /\ res = NoResponse
    /\ issued = {SampleReviews[i].id : i \in 1..Len(SampleReviews)}
    /\ fsReviews = <<>>
    /\ fsNextId = 1
    /\ fsTime = 0
    /\ fsCalls = [slot \in FsSlots |-> FsIdle]

\* The in-memory application's review store: its three write handlers and
\* the movie read that aggregates the stored ratings.
Next ==
    \/ Idle /\ (\E body \in CreateBodies : CreateReview(body)) /\ UNCHANGED fsVars
    \/ Idle /\ (\E r \in UpdateRequests : UpdateReview(r.caller, r.id, r.body))
            /\ UNCHANGED fsVars
    \/ Idle /\ (\E r \in DeleteRequests : DeleteReview(r.caller, r.id, r.body))
            /\ UNCHANGED fsVars
    \/ Idle /\ (\E id \in MovieParamInputs : GetMovie(id)) /\ UNCHANGED fsVars
    \/ Finish /\ UNCHANGED fsVars

Spec == Init /\ [][Next]_vars

\* The in-memory application's reads: listings, search, statistics and the
\* movie read.
NextListing ==
    \/ Idle /\ (\E query \in ListMoviesQueries : ListMovies(query)) /\ UNCHANGED fsVars
    \/ Idle /\ (\E id \in MovieParamInputs, query \in ListReviewsQueries :
                    ListReviews(id, query))
            /\ UNCHANGED fsVars
    \/ Idle /\ (\E query \in SearchQueries : SearchMovies(query)) /\ UNCHANGED fsVars
    \/ Idle /\ Stats /\ UNCHANGED fsVars
    \/ Idle /\ (\E id \in MovieParamInputs : GetMovie(id)) /\ UNCHANGED fsVars
    \/ Finish /\ UNCHANGED fsVars

SpecListing == Init /\ [][NextListing]_vars

\* The Firestore-backed router's write routes, with requests interleaved.
NextFirestore ==
    \/ \E slot \in FsSlots, token \in FsTokens :
        \/ \E body \in FsPostBodies :
                FsReceive(slot, "post", token, 0, body) /\ UNCHANGED appVars
        \/ \E id \in FsReviewIds, body \in FsPutBodies :
                FsReceive(slot, "put", token, id, body) /\ UNCHANGED appVars
        \/ \E id \in FsReviewIds :
                FsReceive(slot, "delete", token, id, [none |-> TRUE]) /\ UNCHANGED appVars
    \/ \E slot \in FsSlots :
        \/ FsVerified(slot) /\ UNCHANGED appVars
        \/ FsPostQueried(slot) /\ UNCHANGED appVars
        \/ FsPostAdded(slot) /\ UNCHANGED appVars
        \/ FsGot(slot) /\ UNCHANGED appVars
        \/ FsPutUpdated(slot) /\ UNCHANGED appVars
        \/ FsDeleted(slot) /\ UNCHANGED appVars
        \/ FsFinish(slot) /\ UNCHANGED appVars

SpecFirestore == Init /\ [][NextFirestore]_vars
(***************************************************************************)
(* Properties of the review store (Spec).                                   *)
(***************************************************************************)
\* The positions of the store whose review is by userId on the movie that
\* movieId names (1 and "1" name the same movie).
ReviewsBy(movieId, userId) ==
    {i \in 1..Len(reviews) :
        reviews[i].movieId = ToNumber(movieId) /\ reviews[i].userId = userId}

OnePerPair ==
    \A i, j \in 1..Len(reviews) :
        (reviews[i].movieId = reviews[j].movieId /\ reviews[i].userId = reviews[j].userId)
            => i = j

\* A create for a pair that has a stored review is rejected and adds
\* nothing; when its other fields are valid the rejection is the duplicate
\* one.
DuplicateRejected ==
    (Idle /\ req'.op = "createReview"
          /\ ReviewsBy(req'.body.movieId, req'.body.userId) # {})
        => /\ res'.status >= 400
           /\ reviews' = reviews
           /\ (req'.body.userName = Ann /\ req'.body.rating = Num(5)
                    /\ req'.body.text = Great)
                => res'.error = "You have already reviewed this movie"

\* C1: in every state reached by create, update and delete requests the
\* store holds at most one review for each (movieId, authorId) pair, and a
\* create for a pair that already has a stored review is rejected and adds
\* nothing.
UniquePerMovieAndAuthor == []OnePerPair /\ [][DuplicateRejected]_vars

\* A user who is not among the sample authors created a review in this run
\* and is refused a second one for the same movie.
DuplicateCreateRefused ==
    /\ req.op = "createReview"
    /\ res.error = "You have already reviewed this movie"
    /\ req.body.userId = u1
    /\ Cardinality(ReviewsBy(req.body.movieId, u1)) = 1

\* The review a PUT or DELETE addresses, 0 when there is none.
Addressed(id) == FindIndex(ParseInt(id))

\* C3: an update or a delete sent by anyone but the stored author of the
\* review fails with 403 and leaves the store as it was, whatever the body
\* of the request holds.
OnlyAuthorMutates ==
    [][(Idle /\ req'.op \in {"updateReview", "deleteReview"}
             /\ Addressed(req'.id) # 0
             /\ reviews[Addressed(req'.id)].userId # req'.caller)
            => (res'.status = 403 /\ reviews' = reviews)]_vars

\* A number with no fractional part.
IsInteger(v) == v.t = "number" /\ v.n % Scale = 0

\* A rating the specification refuses: 0, 6, or anything supplied that is
\* not an integer.
RefusedRating(v) == v.t # "undefined" /\ (v \in {Num(0), Num(6)} \/ ~IsInteger(v))

\* A create whose fields other than the rating are valid, for a movie of the
\* catalogue the user has not reviewed.
CreateOtherwiseValid(body) ==
    /\ body.userName = Ann /\ body.text = Great
    /\ body.userId \in {user123, u1}
    /\ body.movieId \in {Num(1), Str(<<"1">>)}
    /\ ReviewsBy(body.movieId, body.userId) = {}

\* An update of a stored review by its author, with a valid text.
UpdateByAuthor(r) ==
    /\ Addressed(r.id) # 0
    /\ reviews[Addressed(r.id)].userId = r.caller
    /\ r.body.userId = r.caller
    /\ r.body.text = Great

RatingChecked ==
    /\ (Idle /\ req'.op = "createReview" /\ CreateOtherwiseValid(req'.body))
        => /\ RefusedRating(req'.body.rating)
                => (res'.status = 400 /\ reviews' = reviews)
           /\ req'.body.rating \in {Num(1), Num(5)} => res'.status = 201
    /\ (Idle /\ req'.op = "updateReview" /\ UpdateByAuthor(req'))
        => /\ RefusedRating(req'.body.rating)
                => (res'.status = 400 /\ reviews' = reviews)
           /\ req'.body.rating \in {Num(1), Num(5)} => res'.status = 200

\* C4: a create or an update with rating 0, 6 or a non-integer rating fails
\* with 400 and stores nothing; with rating 1 or 5, the other fields valid
\* and the caller the author, it succeeds.
RatingValidated == [][RatingChecked]_vars

\* C5: the rating of every stored review is an integer from 1 to 5.
StoredRatingInRange ==
    \A i \in 1..Len(reviews) :
        /\ IsInteger(reviews[i].rating)
        /\ reviews[i].rating.n >= 1 * Scale
        /\ reviews[i].rating.n <= 5 * Scale

\* C6: the body of every stored review is a string that is not empty once
\* trimmed.
StoredBodyNonEmpty ==
    \A i \in 1..Len(reviews) :
        /\ reviews[i].text.t = "string"
        /\ Trim(reviews[i].text.s) # <<>>

\* The stored reviews of the movie a GET /api/movies/:id names.
StoredFor(id) == {i \in 1..Len(reviews) : reviews[i].movieId = ToNumber(id)}

RECURSIVE SumOver(_)
SumOver(is) ==
    IF is = {} THEN 0
    ELSE LET i == CHOOSE k \in is : TRUE
         IN  reviews[i].rating.n + SumOver(is \ {i})

\* The mean of the ratings at positions is, in tenths, rounded to the
\* nearest tenth.
RoundedMean(is) == (2 * SumOver(is) + Cardinality(is)) \div (2 * Cardinality(is))

\* C10: the movie read reports reviewCount, the number of stored reviews of
\* the movie, and averageRating, a number: the mean of their ratings rounded
\* to one decimal, 0 when the movie has none.
StatsOfMovie ==
    (req.op = "getMovie" /\ res.status = 200
        /\ \A i \in StoredFor(req.id) : reviews[i].rating.t = "number")
        => /\ res.json.reviewCount = Cardinality(StoredFor(req.id))
           /\ res.json.averageRating =
                IF StoredFor(req.id) = {} THEN Num(0)
                ELSE Num10(RoundedMean(StoredFor(req.id)))

\* What a successful update leaves alone: the other reviews, the identity
\* fields of the review, and the rating or text the request does not supply.
UpdateKeepsTheRest ==
    (Idle /\ req'.op = "updateReview" /\ res'.status = 200)
        => LET i == Addressed(req'.id)
           IN  /\ i # 0
               /\ Len(reviews') = Len(reviews)
               /\ \A j \in 1..Len(reviews) : j # i => reviews'[j] = reviews[j]
               /\ reviews'[i].id = reviews[i].id
               /\ reviews'[i].movieId = reviews[i].movieId
               /\ reviews'[i].userId = reviews[i].userId
               /\ reviews'[i].userName = reviews[i].userName
               /\ reviews'[i].createdAt = reviews[i].createdAt
               /\ req'.body.rating = Undefined => reviews'[i].rating = reviews[i].rating
               /\ req'.body.text = Undefined => reviews'[i].text = reviews[i].text
               /\ movies' = movies

\* C12: a successful update changes nothing but the rating and the text the
\* request supplies, and updatedAt, of the review it addresses: an absent
\* field keeps its stored value, id, movieId, author and createdAt stay, and
\* every other review stays.
UpdateChangesOnlySupplied == [][UpdateKeepsTheRest]_vars

\* Sample review 1 got a new text from a request without a rating, and
\* keeps its rating of 5.
UpdatedTextOnly ==
    /\ req.op = "updateReview" /\ res.status = 200
    /\ req.body.rating = Undefined /\ req.body.text = Great
    /\ res.json.id = Num(1)
    /\ res.json.rating = Num(5)
    /\ res.json.text = Str(<<"G", "r", "e", "a", "t">>)
    /\ res.json.updatedAt > res.json.createdAt
    /\ reviews[Addressed(req.id)] = res.json

\* A failed update or delete leaves the collection as it was; a successful
\* delete removes the review it addresses, and a successful update stores
\* the time of the request, the supplied rating when it is an integer from
\* 1 to 5, and the supplied text, trimmed, when it is a string.
AllOrNothing ==
    (Idle /\ req'.op \in {"updateReview", "deleteReview"})
        => LET i == Addressed(req'.id)
           IN  /\ res'.status >= 400 => reviews' = reviews
               /\ (res'.status = 200 /\ req'.op = "deleteReview")
                    => (i # 0 /\ reviews' = Splice(reviews, i))
               /\ (res'.status = 200 /\ req'.op = "updateReview")
                    => /\ i # 0
                       /\ reviews'[i].updatedAt = now
                       /\ req'.body.rating \in {Num(1), Num(5)}
                            => reviews'[i].rating = req'.body.rating
                       /\ req'.body.text = Great
                            => reviews'[i].text = Str(<<"G", "r", "e", "a", "t">>)

\* C13: an update or a delete that fails leaves the whole review collection
\* exactly as it was before the request, and one that succeeds applies all
\* of its changes.
NoPartialWrites == [][AllOrNothing]_vars

\* C15: the identifier a successful create assigns is greater than every
\* identifier handed out before it, those of reviews deleted since
\* included, so no identifier is assigned to two reviews.
IdentifiersNeverReused ==
    [][(Idle /\ req'.op = "createReview" /\ res'.status = 201)
            => \A k \in issued : res'.json.id.n > k.n]_vars

(***************************************************************************)
(* Properties of the Firestore-backed router (SpecFirestore).               *)
(***************************************************************************)
\* C2: creates of one user for one movie, interleaved at their awaits, store
\* at most one review between them: the collection never holds two
\* documents with the same movieId and userId.
ConcurrentCreateAtomic ==
    \A d, e \in DOMAIN fsReviews :
        (fsReviews[d].movieId = fsReviews[e].movieId
            /\ fsReviews[d].userId = fsReviews[e].userId)
            => d = e

\* A movieId that identifies a movie of the catalogue.
InCatalogue(movieId) == \E m \in MovieIds : Num(MovieData[m].id) = ToNumber(movieId)

\* C14: a create for a movieId that is not in the catalogue stores nothing:
\* the movieId of every stored review identifies a movie of the catalogue.
ReviewedMoviesExist == \A d \in DOMAIN fsReviews : InCatalogue(fsReviews[d].movieId)

(***************************************************************************)
(* Properties of the listings (SpecListing).                                *)
(***************************************************************************)
\* A movie the listing's filter keeps: the search term occurs in its title,
\* director or description, and its genre is the one asked for, both
\* without regard to case.
MovieListed(m, query) ==
    /\ ToBoolean(query.search) =>
        \E field \in {LowerCased[m].title, LowerCased[m].director, LowerCased[m].description} :
            Includes(field, ToLowerCase(query.search.s))
    /\ ToBoolean(query.genre) => LowerCased[m].genre = ToLowerCase(query.genre.s)

\* A movie the search keeps: the term occurs in one of its four text fields,
\* its genre and year are the ones asked for, and its rating is at least the
\* one asked for.
MovieFound(m, query) ==
    /\ ToBoolean(query.q) =>
        \E field \in {LowerCased[m].title, LowerCased[m].director,
                      LowerCased[m].description, LowerCased[m].genre} :
            Includes(field, ToLowerCase(query.q.s))
    /\ ToBoolean(query.genre) => LowerCased[m].genre = ToLowerCase(query.genre.s)
    /\ ToBoolean(query.year) => Num(MovieData[m].year) = ToNumber(query.year)
    /\ ToBoolean(query.rating) =>
        (ToNumber(query.rating).t = "number"
            /\ MovieData[m].rating >= ToNumber(query.rating).n)

\* The number of records that match the filter of the listing just answered.
Matching ==
    CASE req.op = "listMovies" -> Cardinality({m \in MovieIds : MovieListed(m, req.query)})
      [] req.op = "searchMovies" -> Cardinality({m \in MovieIds : MovieFound(m, req.query)})
      [] req.op = "listReviews" -> Cardinality(StoredFor(req.id))

\* The slice the listing just answered with.
Items == IF req.op = "listReviews" THEN res.json.reviews ELSE res.json.movies

\* A valid page or limit: absent, or a decimal numeral of at least 1.
ValidCount(v) ==
    \/ v.t = "undefined"
    \/ v.t = "string" /\ v.s # <<>> /\ AllDigits(v.s) /\ DigitsValue(v.s) >= 1

CountOf(v, d) == IF v.t = "undefined" THEN d ELSE DigitsValue(v.s)

\* C7: for a valid page and limit each of the three listings answers with a
\* slice of at most limit records and with totalPages = ceil(total / limit),
\* total being the number of records that match the filter.
SliceWithinLimit ==
    (req.op \in {"listMovies", "listReviews", "searchMovies"} /\ res.status = 200
        /\ ValidCount(req.query.page) /\ ValidCount(req.query.limit))
        => /\ Len(Items) <= CountOf(req.query.limit, 10)
           /\ res.json.totalPages =
                Num((Matching + CountOf(req.query.limit, 10) - 1)
                        \div CountOf(req.query.limit, 10))

\* The last page of the whole catalogue, two to a page: one movie of five.
LastPageOfCatalogue ==
    /\ req.op = "listMovies" /\ res.status = 200
    /\ req.query.page = Str(<<"3">>) /\ req.query.limit = Two
    /\ req.query.search = Undefined /\ req.query.genre = Undefined
    /\ Len(res.json.movies) = 1
    /\ res.json.totalPages = Num(3)
    /\ Matching = 5

\* (page - 1) * limit of the listing just answered.
StartIndex ==
    Mul(Sub(Default(req.query.page, Num(1)), Num(1)), Default(req.query.limit, Num(10)))

\* C8: a listing asked for a page whose startIndex is at or past the number
\* of matching records answers 200 with an empty slice and hasNextPage
\* false.
EmptyPastTheEnd ==
    (req.op \in {"listMovies", "listReviews"} /\ res.status # 0
        /\ StartIndex.t = "number" /\ StartIndex.n >= Matching * Scale)
        => /\ res.status = 200
           /\ Items = <<>>
           /\ res.json.hasNextPage = FALSE

\* C9: whatever page and limit are supplied, the listing works from a
\* startIndex of at least 0 and reports a finite totalPages and a numeric
\* currentPage of at least 1.
InputsNormalised ==
    (req.op \in {"listMovies", "listReviews"} /\ res.status = 200)
        => /\ StartIndex.t = "number" /\ StartIndex.n >= 0
           /\ res.json.totalPages.t = "number"
           /\ res.json.currentPage.t = "number"
           /\ res.json.currentPage.n >= 1 * Scale

\* C11: a read (movie listing, search, movie read, review listing,
\* statistics) leaves the movie catalogue and the review collection as they
\* were, the order of their elements included.
ReadsNeverMutate == [][movies' = movies /\ reviews' = reviews]_vars

====
